---- MODULE Spec2Model ----
(***************************************************************************)
(* JARVIS AR interface: the App component's start-up and inference loop,   *)
(* the SmartHUD overlay loop and the HolographicEarth frame callback.      *)
(*                                                                         *)
(* Numbers are fixed-point integers:                                       *)
(*   landmark coordinates      hundredths            (0.5   is 50)         *)
(*   pinchDistance             ten-thousandths       (0.05  is 500)        *)
(*   rotationSpeed             hundredths            (0.2   is 20)         *)
(*   scale, targetScale        millionths            (2.5   is 2500000)    *)
(*   panel translate           hundredths of a pixel (180px is 18000)      *)
(* Math.sqrt is the floor of the real square root at the pinchDistance     *)
(* resolution; comparing it with a threshold that is a whole number of     *)
(* units gives the same answer as comparing the real square root.          *)
(***************************************************************************)
EXTENDS Integers, Sequences, FiniteSets

VARIABLES
    pc,              \* startApp: "initVision", "getCamera", "ready", "failed"
    videoRef,        \* videoRef.current is an element
    faceLandmarker,  \* visionService.faceLandmarker is set
    handLandmarker,  \* visionService.handLandmarker is set
    loading,         \* App state `loading`
    error,           \* App state `error`: "null" or the message
    errorSets,       \* number of setError calls
    listening,       \* 'loadeddata' listener registered, event not yet fired
    videoTime,       \* video.currentTime
    lastVideoTime,   \* renderLoop's closure variable
    rafPending,      \* a renderLoop callback is scheduled
    faceDataRef,     \* faceDataRef.current
    handDataRef,     \* handDataRef.current
    faceResult,      \* faceResult.faceLandmarks of the latest detector call
    handResult,      \* handResult.landmarks of the latest detector call
    faceCalls,       \* invocations of faceLandmarker.detectForVideo
    handCalls,       \* invocations of handLandmarker.detectForVideo
    noseSeen,        \* history: nose landmark of the latest tick that found a face
    hudPhase,        \* SmartHUD: "unmounted", "committed", "running", "detached", "cleaned"
    containerRef,    \* containerRef.current is an element
    hudPending,      \* an updateHUD callback is scheduled
    panel,           \* the panel's translate (<<>> while none is set) and opacity
    systemStatus,    \* SmartHUD state `systemStatus`
    viewport,        \* window.innerWidth, window.innerHeight
    sceneMounted,    \* meshRef, atmosphereRef and coreRef hold their meshes
    clock,           \* elapsed frame time of the canvas: the sum of the deltas
    rotation,        \* rotation.y of the three meshes
    scale,           \* scale (x = y = z) of the three meshes
    rotationSpeed,   \* useFrame local of the latest frame
    targetScale      \* useFrame local of the latest frame

appVars == <<pc, videoRef, faceLandmarker, handLandmarker, loading, error,
             errorSets, listening>>
loopVars == <<videoTime, lastVideoTime, rafPending, faceDataRef, handDataRef,
              faceResult, handResult, faceCalls, handCalls, noseSeen>>
hudVars == <<hudPhase, containerRef, hudPending, panel, systemStatus, viewport>>
sceneVars == <<sceneMounted, clock, rotation, scale, rotationSpeed, targetScale>>
vars == <<appVars, loopVars, hudVars, sceneVars>>

\* Largest video timestamp the camera stream reaches.
MaxTime == 2

\* Largest elapsed frame time of the canvas.
MaxClock == 2

\* Frame deltas the canvas passes to useFrame.
Deltas == {1, 2}

\* Window sizes: width and height in pixels.
Viewports == { [w |-> 1000, h |-> 800], [w |-> 1280, h |-> 720] }

Pt(px, py, pz) == [x |-> px, y |-> py, z |-> pz]

----------------------------------------------------------------------------
(* Detector outputs.  A face is its landmark list (indices 0..1 kept, 1 is *)
(* the nose tip); a hand is its landmark list (indices 0..8 kept of 21).   *)

Face(other, nose) == [k \in 0..1 |-> IF k = 1 THEN nose ELSE other]

Hand(wrist, thumbTip, indexTip) ==
    [k \in 0..8 |-> IF k = 0 THEN wrist
                    ELSE IF k = 4 THEN thumbTip
                    ELSE IF k = 8 THEN indexTip
                    ELSE Pt(40, 60, 1)]

\* numFaces: 1 and numHands: 1, so a result holds zero or one entry.
FaceResults ==
    { <<>> } \cup { <<Face(Pt(45, 45, 3), n)>> : n \in {Pt(20, 30, -2), Pt(75, 60, 4)} }

HandResults ==
    { <<>> }
    \cup { <<Hand(Pt(w, 70, 0), Pt(50, 50, 0), Pt(53, 53, 0))>> : w \in {0, 50, 100} }
    \cup { <<Hand(Pt(50, 70, 0), Pt(50, 50, 0), i)>> :
              i \in {Pt(50, 50, 7), Pt(53, 54, 0), Pt(60, 50, 0)} }

----------------------------------------------------------------------------
initialFaceData == [detected |-> FALSE, position |-> Pt(50, 50, 0), tilt |-> 0]

initialHandData ==
    [detected |-> FALSE, isPinching |-> FALSE, pinchDistance |-> 0,
     position |-> Pt(0, 0, 0)]

Init ==
    /\ pc = "initVision"
    /\ videoRef \in BOOLEAN
    /\ faceLandmarker = FALSE
    /\ handLandmarker = FALSE
    /\ loading = TRUE
    /\ error = "null"
    /\ errorSets = 0
    /\ listening = FALSE
    /\ videoTime = 0
    /\ lastVideoTime = -1
    /\ rafPending = FALSE
    /\ faceDataRef = initialFaceData
    /\ handDataRef = initialHandData
    /\ faceResult = <<>>
    /\ handResult = <<>>
    /\ faceCalls = 0
    /\ handCalls = 0
    /\ noseSeen = initialFaceData.position
    /\ hudPhase = "unmounted"
    /\ containerRef = FALSE
    /\ hudPending = FALSE
    /\ panel = [transform |-> <<>>, opacity |-> "0"]
    /\ systemStatus = "STANDBY"
    /\ viewport \in Viewports
    /\ sceneMounted = FALSE
    /\ clock = 0
    /\ rotation = [mesh |-> 0, atmosphere |-> 0, core |-> 0]
    /\ scale = [mesh |-> 1000000, atmosphere |-> 1000000, core |-> 1000000]
    /\ rotationSpeed = 0
    /\ targetScale = 0

----------------------------------------------------------------------------
(* visionService.initializeVision and App.startApp                         *)

\* initializeVision resolves: both landmarkers are created, in order.
InitVisionOk ==
    /\ pc = "initVision"
    /\ faceLandmarker' = TRUE
    /\ handLandmarker' = TRUE
    /\ pc' = "getCamera"
    /\ UNCHANGED <<videoRef, loading, error, errorSets, listening, loopVars,
                   hudVars, sceneVars>>

\* Mutant of StartAppCatch: the catch block starts over.
StartAppCatchRetry ==
    /\ error' = "Failed to initialize camera or AI models."
    /\ errorSets' = errorSets + 1
    /\ pc' = "initVision"
    /\ UNCHANGED <<videoRef, loading, listening, loopVars, hudVars, sceneVars>>

\* Failure branch of startApp: the catch block.
StartAppCatch ==
    /\ error' = "Failed to initialize camera or AI models."
    /\ errorSets' = errorSets + 1
    /\ pc' = "failed"
    /\ UNCHANGED <<videoRef, loading, listening, loopVars, hudVars, sceneVars>>

\* initializeVision rejects at one of its three awaits; the face landmarker
\* is already assigned when the hand landmarker's creation is what rejects.
InitVisionFail ==
    /\ pc = "initVision"
    /\ \E stage \in {"fileset", "face", "hand"} :
          /\ faceLandmarker' = (stage = "hand")
          /\ handLandmarker' = FALSE
    /\ StartAppCatch

\* getUserMedia resolves: attach the stream, register predictWebcam.
GetCameraOk ==
    /\ pc = "getCamera"
    /\ listening' = videoRef
    /\ loading' = FALSE
    /\ pc' = "ready"
    /\ UNCHANGED <<videoRef, faceLandmarker, handLandmarker, error, errorSets,
                   loopVars, hudVars, sceneVars>>

\* getUserMedia rejects (permission denied, no camera).
GetCameraFail ==
    /\ pc = "getCamera"
    /\ UNCHANGED <<faceLandmarker, handLandmarker>>
    /\ StartAppCatch

\* The camera stream delivers a new frame.
AdvanceVideo ==
    /\ pc = "ready"
    /\ videoRef
    /\ videoTime < MaxTime
    /\ videoTime' = videoTime + 1
    /\ UNCHANGED <<appVars, lastVideoTime, rafPending, faceDataRef, handDataRef,
                   faceResult, handResult, faceCalls, handCalls, noseSeen,
                   hudVars, sceneVars>>

----------------------------------------------------------------------------
(* renderLoop                                                              *)

PinchThreshold == 500

\* Mutant of FrameChanged: the timestamp guard is dropped.
FrameChangedAlways(now, last) == TRUE

FrameChanged(now, last) == now # last

\* Mutant of InterpretFace: a lost face resets the record to its default.
InterpretFaceReset(faces, prev) ==
    IF Len(faces) > 0
    THEN LET nose == faces[1][1]
         IN  [detected |-> TRUE,
              position |-> Pt(nose.x, nose.y, nose.z),
              tilt |-> 0]
    ELSE initialFaceData

InterpretFace(faces, prev) ==
    IF Len(faces) > 0
    THEN LET nose == faces[1][1]
         IN  [detected |-> TRUE,
              position |-> Pt(nose.x, nose.y, nose.z),
              tilt |-> 0]
    ELSE [prev EXCEPT !.detected = FALSE]

\* Math.sqrt on a non-negative integer: the floor of the root, by bisection.
RECURSIVE SqrtBetween(_, _, _)
SqrtBetween(n, lo, hi) ==
    IF lo = hi THEN lo
    ELSE LET mid == (lo + hi + 1) \div 2
         IN  IF mid * mid <= n THEN SqrtBetween(n, mid, hi)
             ELSE SqrtBetween(n, lo, mid - 1)

Sqrt(n) == SqrtBetween(n, 0, 20000)

\* Mutant of PinchDistance: the distance is taken in three dimensions.
PinchDistance3D(thumbTip, indexTip) ==
    LET dx == thumbTip.x - indexTip.x
        dy == thumbTip.y - indexTip.y
        dz == thumbTip.z - indexTip.z
    IN  Sqrt((dx * dx + dy * dy + dz * dz) * 10000)

\* Coordinates in hundredths, result in ten-thousandths.
PinchDistance(thumbTip, indexTip) ==
    LET dx == thumbTip.x - indexTip.x
        dy == thumbTip.y - indexTip.y
    IN  Sqrt((dx * dx + dy * dy) * 10000)

\* Mutant of IsPinching: the threshold itself counts as a pinch.
IsPinchingInclusive(distance) == distance <= PinchThreshold

IsPinching(distance) == distance < PinchThreshold

InterpretHand(hands, prev) ==
    IF Len(hands) > 0
    THEN LET landmarks == hands[1]
             distance == PinchDistance(landmarks[4], landmarks[8])
             handPos == landmarks[0]
         IN  [detected |-> TRUE,
              isPinching |-> IsPinching(distance),
              pinchDistance |-> distance,
              position |-> Pt(handPos.x, handPos.y, handPos.z)]
    ELSE [prev EXCEPT !.detected = FALSE]

\* One run of renderLoop with closure value `last`, the detectors returning
\* `faces` and `hands` if they are called.
RenderLoopBody(last, faces, hands) ==
    /\ IF FrameChanged(videoTime, last)
       THEN /\ lastVideoTime' = videoTime
            /\ faceResult' = faces
            /\ faceCalls' = faceCalls + 1
            /\ faceDataRef' = InterpretFace(faces, faceDataRef)
            /\ noseSeen' = IF Len(faces) > 0 THEN faces[1][1] ELSE noseSeen
            /\ handResult' = hands
            /\ handCalls' = handCalls + 1
            /\ handDataRef' = InterpretHand(hands, handDataRef)
       ELSE /\ lastVideoTime' = last
            /\ UNCHANGED <<faceResult, faceCalls, faceDataRef, noseSeen,
                           handResult, handCalls, handDataRef>>
    /\ rafPending' = TRUE

\* 'loadeddata' fires: predictWebcam sets lastVideoTime = -1 and runs the
\* first renderLoop synchronously.
PredictWebcam ==
    /\ listening
    /\ listening' = FALSE
    /\ IF ~videoRef \/ ~faceLandmarker \/ ~handLandmarker
       THEN UNCHANGED loopVars
       ELSE /\ \E faces \in FaceResults, hands \in HandResults :
                  RenderLoopBody(-1, faces, hands)
            /\ UNCHANGED videoTime
    /\ UNCHANGED <<pc, videoRef, faceLandmarker, handLandmarker, loading, error,
                   errorSets, hudVars, sceneVars>>

\* A scheduled renderLoop callback runs.
RenderLoop ==
    /\ rafPending
    /\ \E faces \in FaceResults, hands \in HandResults :
          RenderLoopBody(lastVideoTime, faces, hands)
    /\ UNCHANGED <<appVars, videoTime, hudVars, sceneVars>>

\* A scheduled renderLoop callback runs and a detector call throws: the
\* exception leaves renderLoop before requestAnimationFrame.
RenderLoopThrow ==
    /\ rafPending
    /\ FrameChanged(videoTime, lastVideoTime)
    /\ lastVideoTime' = videoTime
    /\ faceCalls' = faceCalls + 1
    /\ \/ UNCHANGED <<faceResult, faceDataRef, noseSeen, handResult, handCalls,
                      handDataRef>>
       \/ \E faces \in FaceResults :
             /\ faceResult' = faces
             /\ faceDataRef' = InterpretFace(faces, faceDataRef)
             /\ noseSeen' = IF Len(faces) > 0 THEN faces[1][1] ELSE noseSeen
             /\ handCalls' = handCalls + 1
             /\ UNCHANGED <<handResult, handDataRef>>
    /\ rafPending' = FALSE
    /\ UNCHANGED <<appVars, videoTime, hudVars, sceneVars>>

----------------------------------------------------------------------------
(* SmartHUD: the updateHUD loop of its effect                              *)

xOffset == 18000

yOffset == -5000

\* Mutant of ScreenPos: the horizontal flip is missing.
ScreenPosUnflipped(position, vp) ==
    <<position.x * vp.w + xOffset, position.y * vp.h + yOffset>>

\* The translate(x, y) of the panel, in hundredths of a pixel.
ScreenPos(position, vp) ==
    <<(100 - position.x) * vp.w + xOffset, position.y * vp.h + yOffset>>

UpdateHUDBody ==
    LET face == faceDataRef
    IN  IF face.detected /\ containerRef
        THEN /\ panel' = [transform |-> ScreenPos(face.position, viewport),
                          opacity |-> "1"]
             /\ systemStatus' = "ONLINE"
        ELSE IF containerRef
        THEN /\ panel' = [panel EXCEPT !.opacity = "0.3"]
             /\ systemStatus' = "SEARCHING..."
        ELSE UNCHANGED <<panel, systemStatus>>

\* React commits SmartHUD: the panel element is attached to containerRef.
HUDCommit ==
    /\ hudPhase = "unmounted"
    /\ hudPhase' = "committed"
    /\ containerRef' = TRUE
    /\ UNCHANGED <<hudPending, panel, systemStatus, viewport, appVars, loopVars,
                   sceneVars>>

\* The effect runs: updateHUD is called once and schedules itself.
HUDEffect ==
    /\ hudPhase = "committed"
    /\ hudPhase' = "running"
    /\ UpdateHUDBody
    /\ hudPending' = TRUE
    /\ UNCHANGED <<containerRef, viewport, appVars, loopVars, sceneVars>>

\* A scheduled updateHUD callback runs.
UpdateHUD ==
    /\ hudPending
    /\ UpdateHUDBody
    /\ hudPending' = TRUE
    /\ UNCHANGED <<hudPhase, containerRef, viewport, appVars, loopVars, sceneVars>>

\* The window is resized.
Resize ==
    /\ \E vp \in Viewports \ {viewport} : viewport' = vp
    /\ UNCHANGED <<hudPhase, containerRef, hudPending, panel, systemStatus,
                   appVars, loopVars, sceneVars>>

\* SmartHUD unmounts: React detaches containerRef in the commit ...
HUDDetach ==
    /\ hudPhase = "running"
    /\ hudPhase' = "detached"
    /\ containerRef' = FALSE
    /\ UNCHANGED <<hudPending, panel, systemStatus, viewport, appVars, loopVars,
                   sceneVars>>

\* ... and runs the effect's cleanup later: cancelAnimationFrame.
HUDCleanup ==
    /\ hudPhase = "detached"
    /\ hudPhase' = "cleaned"
    /\ hudPending' = FALSE
    /\ UNCHANGED <<containerRef, panel, systemStatus, viewport, appVars, loopVars,
                   sceneVars>>

HUDNext ==
    \/ HUDCommit
    \/ HUDEffect
    \/ UpdateHUD
    \/ Resize
    \/ HUDDetach
    \/ HUDCleanup

----------------------------------------------------------------------------
(* HolographicEarth: the useFrame callback                                 *)

baseScale == 25

\* Mutant of RotationSpeed: the stale position is used when no hand is detected.
RotationSpeedStale(hand) == 20 + (hand.position.x - 50) * 10

\* let rotationSpeed = 0.2; if (hand.detected) rotationSpeed += (x - 0.5) * 10
RotationSpeed(hand) ==
    IF hand.detected THEN 20 + (hand.position.x - 50) * 10 ELSE 20

Max(a, b) == IF a > b THEN a ELSE b

Min(a, b) == IF a < b THEN a ELSE b

\* Math.max(0, Math.min(1, pinchDistance * 10)), in ten-thousandths.
PinchFactor(hand) == Max(0, Min(10000, hand.pinchDistance * 10))

\* Mutant of TargetScale: the stale isPinching is used when no hand is detected.
TargetScaleStale(hand) ==
    IF hand.isPinching
    THEN baseScale * (50000 + PinchFactor(hand) * 15)
    ELSE baseScale * 100000

\* baseScale is in tenths; the result is in millionths.
TargetScale(hand) ==
    IF hand.detected /\ hand.isPinching
    THEN baseScale * (50000 + PinchFactor(hand) * 15)
    ELSE baseScale * 100000

\* Vector3.lerp(v, 0.1) on one component.
Lerp(from, to) == from + ((to - from) \div 10)

\* The canvas mounts the three meshes and subscribes the frame callback.
MountScene ==
    /\ ~sceneMounted
    /\ sceneMounted' = TRUE
    /\ UNCHANGED <<clock, rotation, scale, rotationSpeed, targetScale, appVars,
                   loopVars, hudVars>>

\* The canvas renders a frame and calls the useFrame callback with `delta`.
\* The callback is subscribed by the commit that attaches the three refs, so
\* its first line (return when a ref is empty) never returns.
UseFrame ==
    /\ sceneMounted
    /\ \E delta \in Deltas :
          /\ clock + delta <= MaxClock
          /\ clock' = clock + delta
          /\ LET hand == handDataRef
                 speed == RotationSpeed(hand)
                 target == TargetScale(hand)
             IN  /\ rotationSpeed' = speed
                 /\ rotation' =
                       [mesh |-> rotation.mesh + speed * delta,
                        atmosphere |-> rotation.atmosphere + ((speed * 8) \div 10) * delta,
                        core |-> rotation.core - ((speed * 5) \div 10) * delta]
                 /\ targetScale' = target
                 /\ scale' =
                       [mesh |-> Lerp(scale.mesh, target),
                        atmosphere |-> Lerp(scale.atmosphere, (target * 12) \div 10),
                        core |-> Lerp(scale.core, (target * 8) \div 10)]
    /\ UNCHANGED <<sceneMounted, appVars, loopVars, hudVars>>

SceneNext ==
    \/ MountScene
    \/ UseFrame

----------------------------------------------------------------------------
AppNext ==
    \/ InitVisionOk
    \/ InitVisionFail
    \/ GetCameraOk
    \/ GetCameraFail
    \/ AdvanceVideo
    \/ PredictWebcam
    \/ RenderLoop

\* A renderLoop tick, whether its detector calls return or throw.
Tick == RenderLoop \/ RenderLoopThrow

Next == AppNext

HUDStep == AppNext \/ HUDNext

SceneStep == AppNext \/ SceneNext

FaultStep == AppNext \/ RenderLoopThrow

\* The inference loop alone; the detectors return on every call.
Spec == Init /\ [][Next]_vars

\* The inference loop and the overlay panel's loop.
HUDSpec == Init /\ [][HUDStep]_vars

\* The inference loop and the globe's frame callback.
SceneSpec == Init /\ [][SceneStep]_vars

\* The inference loop with detector calls that may throw.  The browser runs
\* every scheduled animation-frame callback, so a pending tick is taken.
FaultSpec == Init /\ [][FaultStep]_vars /\ WF_vars(Tick)

\* The inference loop whose detector calls all return, with every scheduled
\* renderLoop callback taken.
LiveSpec == Init /\ [][Next]_vars /\ WF_vars(RenderLoop)

----------------------------------------------------------------------------
(* Properties                                                              *)

\* C1: on an inference tick whose video timestamp equals lastVideoTime no
\* detector is invoked and faceDataRef, handDataRef and lastVideoTime are
\* unchanged; on a tick where it differs the timestamp is recorded and each
\* detector is invoked exactly once; no other step invokes a detector.
C1_FrameSkip ==
    [][ /\ (RenderLoop \/ PredictWebcam) /\ videoTime = lastVideoTime
           => UNCHANGED <<faceCalls, handCalls, faceDataRef, handDataRef,
                          lastVideoTime>>
        /\ (RenderLoop \/ PredictWebcam) /\ videoTime # lastVideoTime
           => /\ lastVideoTime' = videoTime
              /\ faceCalls' = faceCalls + 1
              /\ handCalls' = handCalls + 1
        /\ ~(RenderLoop \/ PredictWebcam)
           => UNCHANGED <<faceCalls, handCalls, faceDataRef, handDataRef,
                          lastVideoTime>> ]_vars

\* C1 witness: two timestamps were processed and a tick is scheduled on a
\* timestamp that is already processed.
C1_Witness ==
    /\ rafPending
    /\ videoTime = 1
    /\ lastVideoTime = videoTime
    /\ faceCalls = 2
    /\ handCalls = 2

\* C2: whenever the latest face detection returned no face, detected is false
\* and position is the nose position of the latest tick that found a face (the
\* startup default if none did); a zero-face tick leaves position and tilt alone.
C2_StaleFace ==
    /\ [](faceCalls > 0 /\ Len(faceResult) = 0
          => /\ ~faceDataRef.detected
             /\ faceDataRef.position = noseSeen)
    /\ [][faceCalls' # faceCalls /\ Len(faceResult') = 0
          => /\ faceDataRef'.position = faceDataRef.position
             /\ faceDataRef'.tilt = faceDataRef.tilt]_vars

\* C2 witness: a face was found, then lost; its position is still held.
C2_Witness ==
    /\ faceCalls >= 2
    /\ Len(faceResult) = 0
    /\ ~faceDataRef.detected
    /\ noseSeen # initialFaceData.position
    /\ faceDataRef.position = noseSeen

\* C3 as stated: in every reachable state, the startup state included,
\* isPinching holds iff pinchDistance is below 0.05.
C3_PinchIffBelowEverywhere ==
    handDataRef.isPinching <=> handDataRef.pinchDistance < 500

\* C3 amended: in every state whose record is not the startup record, states
\* after the hand is lost included, isPinching holds iff pinchDistance is below
\* 0.05; the startup record is not pinching although its pinchDistance is 0.
C3_PinchIffBelowOnceSeen ==
    IF handDataRef = initialHandData
    THEN ~handDataRef.isPinching /\ handDataRef.pinchDistance = 0
    ELSE handDataRef.isPinching <=> handDataRef.pinchDistance < 500

\* C3 witness: the hand was lost while pinching.
C3_Witness ==
    /\ ~handDataRef.detected
    /\ handDataRef.isPinching
    /\ handDataRef.pinchDistance < 500

\* C4: after a tick on which the hand detector returned a hand, the record is
\* detected, its position is landmark 0, its pinchDistance is the planar
\* distance of landmarks 4 and 8 (z ignored) and isPinching says that distance
\* is below 0.05; coinciding tips give 0 and a pinch, 0.05 or more gives none.
C4_HandInterpretation ==
    handCalls > 0 /\ Len(handResult) > 0
    => LET lm == handResult[1]
           dx == lm[4].x - lm[8].x
           dy == lm[4].y - lm[8].y
           sq == dx * dx + dy * dy
           d == handDataRef.pinchDistance
       IN  /\ handDataRef.detected
           /\ handDataRef.position = lm[0]
           /\ d >= 0
           /\ d * d <= sq * 10000
           /\ (d + 1) * (d + 1) > sq * 10000
           /\ handDataRef.isPinching <=> (sq < 25)
           /\ sq = 0 => handDataRef.isPinching /\ d = 0
           /\ d >= 500 => ~handDataRef.isPinching

\* C4 witness: thumb tip and index tip coincide in the image plane and differ
\* in depth.
C4_Witness ==
    /\ handCalls > 0
    /\ Len(handResult) > 0
    /\ handResult[1][4].z # handResult[1][8].z
    /\ handDataRef.detected
    /\ handDataRef.isPinching
    /\ handDataRef.pinchDistance = 0

\* C5 as stated: on every frame the target scale is S0 when isPinching is
\* false and S0 * (0.5 + n * 1.5), n = clamp(pinchDistance * 10, 0, 1), when
\* isPinching is true, a stale isPinching after the hand was lost included.
C5_TargetByPinchingAlone ==
    [][clock' # clock
       => LET h == handDataRef
              n == IF h.pinchDistance * 10 > 10000 THEN 10000
                   ELSE IF h.pinchDistance < 0 THEN 0
                   ELSE h.pinchDistance * 10
          IN  targetScale' = IF h.isPinching THEN 25 * (50000 + 15 * n)
                             ELSE 2500000]_vars

\* C5 amended: on every frame the target scale is S0 * (0.5 + n * 1.5) when
\* the hand is detected and pinching, and S0 otherwise, so a stale isPinching
\* of a lost hand gives S0.
C5_TargetByDetectedPinch ==
    [][clock' # clock
       => LET h == handDataRef
              n == IF h.pinchDistance * 10 > 10000 THEN 10000
                   ELSE IF h.pinchDistance < 0 THEN 0
                   ELSE h.pinchDistance * 10
          IN  targetScale' = IF h.detected /\ h.isPinching
                             THEN 25 * (50000 + 15 * n)
                             ELSE 2500000]_vars

\* C5 witness: a frame ran, and the hand is lost with isPinching still true
\* while the target scale is S0.
C5_Witness ==
    /\ clock > 0
    /\ ~handDataRef.detected
    /\ handDataRef.isPinching
    /\ targetScale = 2500000

\* C6: a frame that reads a detected hand whose pinchDistance is 0.1 has
\* target scale 2 * S0, the top of the range 0.5 * S0 .. 2 * S0.
C6_FullRange ==
    [][clock' # clock /\ handDataRef.detected /\ handDataRef.pinchDistance = 1000
       => targetScale' = 2 * 2500000]_vars

C8_PanelMirrorsFace ==
    [][HUDEffect \/ UpdateHUD
       => LET f == faceDataRef
          IN  /\ containerRef /\ f.detected
                 => /\ panel'.transform =
                          <<(100 - f.position.x) * viewport.w + 18000,
                            f.position.y * viewport.h - 5000>>
                    /\ panel'.opacity = "1"
                    /\ systemStatus' = "ONLINE"
              /\ containerRef /\ ~f.detected
                 => /\ panel'.transform = panel.transform
                    /\ panel'.opacity = "0.3"
                    /\ systemStatus' = "SEARCHING..."
              /\ ~containerRef => UNCHANGED <<panel, systemStatus>>
              /\ /\ containerRef /\ f.detected
                 /\ f.position.x = 20 /\ f.position.y = 30
                 /\ viewport = [w |-> 1000, h |-> 800]
                 => panel'.transform = <<98000, 19000>>
              /\ UNCHANGED <<faceDataRef, handDataRef>>]_vars

\* C8 witness: the panel sits at (980, 190) for the face at (0.2, 0.3) on a
\* 1000 x 800 window while the inference loop has nothing new to process.
C8_Witness ==
    /\ hudPending
    /\ containerRef
    /\ faceDataRef.detected
    /\ faceDataRef.position.x = 20
    /\ faceDataRef.position.y = 30
    /\ viewport = [w |-> 1000, h |-> 800]
    /\ panel = [transform |-> <<98000, 19000>>, opacity |-> "1"]
    /\ systemStatus = "ONLINE"
    /\ rafPending
    /\ lastVideoTime = videoTime

\* C9: once the error message is set, it was set once, start-up is over for
\* good, no 'loadeddata' listener and no renderLoop callback exists, no
\* detector was ever invoked and both records are their startup values.
C9_InitFailure ==
    /\ [](error # "null"
          => /\ errorSets = 1
             /\ pc = "failed"
             /\ ~listening
             /\ ~rafPending
             /\ faceCalls = 0
             /\ handCalls = 0
             /\ faceDataRef = initialFaceData
             /\ handDataRef = initialHandData)
    /\ [][pc = "failed"
          => /\ pc' = "failed"
             /\ UNCHANGED <<error, errorSets, faceLandmarker, handLandmarker>>]_vars

\* C9 witness: the models loaded and the camera was refused.
C9_Witness ==
    /\ pc = "failed"
    /\ faceLandmarker
    /\ handLandmarker
    /\ error # "null"
    /\ ~faceDataRef.detected
    /\ ~handDataRef.detected

\* C10: once renderLoop has run, a renderLoop callback is scheduled after
\* every tick, and the current video timestamp is always eventually the one
\* that was processed with the next tick scheduled.
C10_LoopNeverStops ==
    /\ [](faceCalls > 0 => rafPending)
    /\ (faceCalls > 0) ~> (rafPending /\ lastVideoTime = videoTime)

\* C10 while every detector call returns (under LiveSpec): the same property,
\* together with the timestamp never being recorded without both records
\* having been written from that frame's detector results.
C10_LoopRunsWhileDetectorsReturn ==
    /\ [](faceCalls > 0 => rafPending /\ handCalls = faceCalls)
    /\ (faceCalls > 0) ~> (rafPending /\ lastVideoTime = videoTime)

====
